---------------------------- MODULE Spec2Model ----------------------------
(***************************************************************************)
(* The Banxico USD/MXN FIX adapter (fx-banco): a process-wide quote cache  *)
(* refreshed on demand by GET /fx/usd-mxn/latest and inspected by          *)
(* GET /healthz.                                                           *)
(*                                                                         *)
(* JavaScript values are tagged records: undefined, null, strings and      *)
(* numbers.  Rates are finite decimals counted in units of 10^-5 (one      *)
(* digit more than toFixed(4) keeps), time values are milliseconds counted *)
(* from 2025-09-01T00:00:00.000Z (EpochDays days after 1970-01-01) so that *)
(* they stay inside TLC's 32-bit integers; the code only ever subtracts    *)
(* two time values or formats one, and formatting adds EpochDays back.     *)
(***************************************************************************)
EXTENDS Integers, Sequences, FiniteSets, TLC

VARIABLES
  now,      \* Date.now()
  cache,    \* the module-level `cache` object
  pc,       \* per request: where its /fx/usd-mxn/latest handler stands
  seen,     \* per request: cache.asOf as read by the needsRefresh test
  needs,    \* per request: the handler's `needsRefresh`
  fetches,  \* per request: upstream calls issued by the current call
  pending,  \* per request: the error thrown and not yet caught
  resp,     \* per request: the HTTP response sent for the current call
  health,   \* the last /healthz response
  own       \* per request: the object its fetchBanxico() call returned

vars == <<now, cache, pc, seen, needs, fetches, pending, resp, health, own>>

(***************************************************************************)
(* Bounds of the model.                                                    *)
(***************************************************************************)
\* the clock runs over the days 0..MaxDays after 2025-09-01
MaxDays == 1

\* the GET /fx/usd-mxn/latest requests that can be in flight at once: the
\* handler's races are between two requests
Requests == {1, 2}

(***************************************************************************)
(* JavaScript values.                                                      *)
(***************************************************************************)
Undefined == [t |-> "undefined"]

Null == [t |-> "null"]

Str(s) == [t |-> "string", s |-> s]

Num(v) == [t |-> "number", k |-> "fin", v |-> v]

NaN == [t |-> "number", k |-> "nan"]

PosInf == [t |-> "number", k |-> "inf"]

NegInf == [t |-> "number", k |-> "-inf"]

\* ToBoolean: what `!x` and `||` test
Truthy(x) ==
  CASE x.t = "undefined" -> FALSE
    [] x.t = "null" -> FALSE
    [] x.t = "string" -> x.s # ""
    [] x.t = "number" -> IF x.k = "fin" THEN x.v # 0 ELSE x.k # "nan"
    [] OTHER -> TRUE

\* Number.isFinite
IsFinite(x) == x.t = "number" /\ x.k = "fin"

(***************************************************************************)
(* Strings.                                                                *)
(***************************************************************************)
Digits == <<"0", "1", "2", "3", "4", "5", "6", "7", "8", "9">>

IsDigit(c) == \E i \in 1..10 : Digits[i] = c

DigitVal(c) == (CHOOSE i \in 1..10 : Digits[i] = c) - 1

Char(s, i) == SubSeq(s, i, i)

AllDigits(s) == Len(s) > 0 /\ \A i \in 1..Len(s) : IsDigit(Char(s, i))

RECURSIVE DecVal(_)
\* the value of a string of decimal digits
DecVal(s) ==
  IF Len(s) = 0 THEN 0
  ELSE 10 * DecVal(SubSeq(s, 1, Len(s) - 1)) + DigitVal(Char(s, Len(s)))

\* String.prototype.includes for a one-character needle
Includes(s, c) == \E i \in 1..Len(s) : Char(s, i) = c

\* the position of the first c in s, or Len(s) + 1
IndexOf(s, c) ==
  IF Includes(s, c) THEN CHOOSE i \in 1..Len(s) :
                           Char(s, i) = c /\ \A j \in 1..(i - 1) : Char(s, j) # c
  ELSE Len(s) + 1

RECURSIVE Split(_, _)
\* String.prototype.split for a one-character separator
Split(s, c) ==
  IF ~Includes(s, c) THEN <<s>>
  ELSE <<SubSeq(s, 1, IndexOf(s, c) - 1)>>
         \o Split(SubSeq(s, IndexOf(s, c) + 1, Len(s)), c)

RECURSIVE PadStart(_, _)
\* String.prototype.padStart(w, "0")
PadStart(s, w) == IF Len(s) >= w THEN s ELSE PadStart("0" \o s, w)

(***************************************************************************)
(* Numbers.  A finite rate x is held as the integer x * RateScale.         *)
(***************************************************************************)
\* 10^5: five fractional digits
RateScale == 10 * 10 * 10 * 10 * 10

Abs(n) == IF n < 0 THEN 0 - n ELSE n

\* an unsigned StrDecimalLiteral "ddd", "ddd.", "ddd.ddd" or ".ddd" (no exponent)
IsUnsignedDecimal(s) ==
  LET dot == IndexOf(s, ".")
      ip == SubSeq(s, 1, dot - 1)
      fp == SubSeq(s, dot + 1, Len(s))
  IN  /\ Len(ip) + Len(fp) > 0
      /\ \A i \in 1..Len(ip) : IsDigit(Char(ip, i))
      /\ \A i \in 1..Len(fp) : IsDigit(Char(fp, i))

RECURSIVE PadEnd(_, _)
\* String.prototype.padEnd(w, "0")
PadEnd(s, w) == IF Len(s) >= w THEN s ELSE PadEnd(s \o "0", w)

\* the value of an unsigned decimal literal, in units of 1/RateScale; digits
\* past the fifth are cut (the payloads of the model carry none)
UnsignedDecimalVal(s) ==
  LET dot == IndexOf(s, ".")
      ip == SubSeq(s, 1, dot - 1)
      fp == SubSeq(PadEnd(SubSeq(s, dot + 1, Len(s)), 5), 1, 5)
  IN  DecVal(ip) * RateScale + DecVal(fp)

\* StringToNumber (ECMA-262 7.1.4.1.1) on untrimmed text: the empty string is
\* 0, [+-]Infinity, signed decimal literals; anything else is NaN.  -0 is
\* held as 0 (no comparison of the program tells them apart).
StringToNumber(s) ==
  LET sign == IF Len(s) > 0 /\ Char(s, 1) \in {"+", "-"} THEN Char(s, 1) ELSE ""
      rest == SubSeq(s, Len(sign) + 1, Len(s))
  IN  CASE s = "" -> Num(0)
        [] rest = "Infinity" -> IF sign = "-" THEN NegInf ELSE PosInf
        [] IsUnsignedDecimal(rest) ->
             Num((IF sign = "-" THEN -1 ELSE 1) * UnsignedDecimalVal(rest))
        [] OTHER -> NaN

\* Number(x): ToNumber of a JSON value
ToNumber(x) ==
  CASE x.t = "undefined" -> NaN
    [] x.t = "null" -> Num(0)
    [] x.t = "string" -> StringToNumber(x.s)
    [] OTHER -> x

\* Number.prototype.toFixed(4) of a finite number (ECMA-262 21.1.3.3): the
\* integer n with n / 10^4 nearest to |x|, the larger n on a tie, printed
\* with 4 fractional digits behind the sign of x
ToFixed4(x) ==
  LET n == (Abs(x.v) + 5) \div 10
  IN  (IF x.v < 0 THEN "-" ELSE "")
        \o ToString(n \div 10000) \o "." \o PadStart(ToString(n % 10000), 4)

(***************************************************************************)
(* Dates.  A time value is the number of milliseconds since                *)
(* 2025-09-01T00:00:00.000Z.                                               *)
(***************************************************************************)
MsPerHour == 60 * 60 * 1000

MsPerDay == 24 * MsPerHour

\* MakeDay (ECMA-262 21.4.1.28) for month 1..12 and day of month 1: the day
\* number of y-m-01 counted from 1970-01-01
DaysFromCivil(y, m) ==
  LET yy == IF m <= 2 THEN y - 1 ELSE y
      era == yy \div 400
      yoe == yy - era * 400
      doy == (153 * (IF m > 2 THEN m - 3 ELSE m + 9) + 2) \div 5
      doe == yoe * 365 + yoe \div 4 - yoe \div 100 + doy
  IN  era * 146097 + doe - 719468

\* the day number of 2025-09-01
EpochDays == DaysFromCivil(2025, 9)

\* YearFromTime, MonthFromTime, DateFromTime (ECMA-262 21.4.1.8-12) of day
\* number z counted from 1970-01-01
CivilFromDays(z) ==
  LET zz == z + 719468
      era == zz \div 146097
      doe == zz - era * 146097
      yoe == (doe - doe \div 1460 + doe \div 36524 - doe \div 146096) \div 365
      doy == doe - (365 * yoe + yoe \div 4 - yoe \div 100)
      mp == (5 * doy + 2) \div 153
      d == doy - (153 * mp + 2) \div 5 + 1
      m == IF mp < 10 THEN mp + 3 ELSE mp - 9
  IN  [year |-> yoe + era * 400 + (IF m <= 2 THEN 1 ELSE 0), month |-> m, day |-> d]

\* the characters of s at positions ps are exactly cs
Lit(s, ps, cs) == \A i \in 1..Len(ps) : Char(s, ps[i]) = cs[i]

\* Date.parse / new Date(string) on the ECMA-262 date-time format
\* YYYY-MM-DDTHH:mm:ss[.sss]Z.  As V8 does, a day of month up to 31 is taken
\* in any month and carried into the next one.  Any other text is an invalid
\* date (NaN): the texts the model feeds it are ones V8's fallback parser
\* rejects too.
DateParse(s) ==
  LET y == SubSeq(s, 1, 4)
      mo == SubSeq(s, 6, 7)
      d == SubSeq(s, 9, 10)
      h == SubSeq(s, 12, 13)
      mi == SubSeq(s, 15, 16)
      se == SubSeq(s, 18, 19)
      ms == IF Len(s) = 24 THEN SubSeq(s, 21, 23) ELSE "000"
      shape == \/ Len(s) = 20 /\ Lit(s, <<5, 8, 11, 14, 17, 20>>,
                                        <<"-", "-", "T", ":", ":", "Z">>)
               \/ Len(s) = 24 /\ Lit(s, <<5, 8, 11, 14, 17, 20, 24>>,
                                        <<"-", "-", "T", ":", ":", ".", "Z">>)
  IN  IF /\ shape
         /\ \A f \in {y, mo, d, h, mi, se, ms} : AllDigits(f)
         /\ DecVal(mo) \in 1..12 /\ DecVal(d) \in 1..31
         /\ DecVal(h) \in 0..23 /\ DecVal(mi) \in 0..59 /\ DecVal(se) \in 0..59
      THEN Num((DaysFromCivil(DecVal(y), DecVal(mo)) + DecVal(d) - 1 - EpochDays)
                 * MsPerDay
               + DecVal(h) * MsPerHour + DecVal(mi) * 60000 + DecVal(se) * 1000
               + DecVal(ms))
      ELSE NaN

\* Date.prototype.toISOString of a finite time value
ToISOString(tv) ==
  LET c == CivilFromDays(tv.v \div MsPerDay + EpochDays)
      r == tv.v % MsPerDay
  IN  PadStart(ToString(c.year), 4) \o "-" \o PadStart(ToString(c.month), 2)
        \o "-" \o PadStart(ToString(c.day), 2)
        \o "T" \o PadStart(ToString(r \div MsPerHour), 2)
        \o ":" \o PadStart(ToString((r % MsPerHour) \div 60000), 2)
        \o ":" \o PadStart(ToString((r % 60000) \div 1000), 2)
        \o "." \o PadStart(ToString(r % 1000), 3) \o "Z"

\* a - b on numbers
Minus(a, b) == IF IsFinite(a) /\ IsFinite(b) THEN Num(a.v - b.v) ELSE NaN

\* a > n for a number a and an integer n: false on NaN
GreaterThan(a, n) ==
  CASE a.k = "fin" -> a.v > n
    [] a.k = "inf" -> TRUE
    [] OTHER -> FALSE

(***************************************************************************)
(* Configuration (environment unset: the defaults).                        *)
(***************************************************************************)
BUY_SPREAD_BPS == 25

SELL_SPREAD_BPS == 25

SOURCE == "banxico_fix"

MAX_CACHE_MS == 60 * 60 * 1000

(***************************************************************************)
(* What the upstream can answer.                                           *)
(***************************************************************************)
Statuses == {200, 299, 300, 503}

\* Response.ok taken as "no client or server error"
OkBelow400(status) == status >= 200 /\ status < 400

\* Response.ok of node-fetch
Ok(status) == status >= 200 /\ status < 300

\* a body that is not JSON
NotJson == [t |-> "invalid"]

\* a JSON body whose bmx.series[0].datos[0] is punto (Undefined: no such path)
Json(punto) == [t |-> "json", punto |-> punto]

Punto(dato, fecha) == [t |-> "object", dato |-> dato, fecha |-> fecha]

\* rate fields: a good one, Banxico's "N/E" (not available), and the shapes
\* a broken series can take
Datos ==
  {Str("18.3452"), Str("N/E"), Str("Infinity"), Str("-Infinity"), Str("0"),
   Str("-18.5"), Str("0.00002"), Str(""), Null, Undefined}

\* date fields: dd/mm/yyyy, an ISO date, no date, text that is no date, a
\* month out of range, a JSON number
Fechas ==
  {Str("01/09/2025"), Str("02/09/2025"), Str("2025-09-02"), Str(""), Null,
   Undefined, Str("N/E"), Str("25/13/2025"), Num(20250901)}

GoodDato == Str("18.3452")

GoodFecha == Str("01/09/2025")

\* the fixing of 2025-09-01
Fix1 == Json(Punto(GoodDato, GoodFecha))

\* the fixing of 2025-09-02
Fix2 == Json(Punto(Str("18.34567"), Str("02/09/2025")))

\* every rate with a good date, every date with a good rate, the second
\* day's fixing, a point with neither field, no point at all, no JSON
Bodies ==
  {Json(Punto(d, GoodFecha)) : d \in Datos}
    \cup {Json(Punto(GoodDato, f)) : f \in Fechas}
    \cup {Fix2, Json(Punto(Undefined, Undefined)), Json(Undefined), NotJson}

\* what the upstream answers while requests overlap: either fixing, a series
\* that is not available, an outage
CoreBodies == {Fix1, Fix2, Json(Punto(Str("N/E"), GoodFecha))}

CoreStatuses == {200, 503}

\* x?.name
Get(x, name) ==
  IF x.t = "object" THEN (IF name = "dato" THEN x.dato ELSE x.fecha)
  ELSE Undefined

(***************************************************************************)
(* The upstream client.  A call that can throw yields [ok |-> TRUE, v]     *)
(* or [ok |-> FALSE, error], error being the Error's message.              *)
(***************************************************************************)
Return(v) == [ok |-> TRUE, v |-> v]

Throw(message) == [ok |-> FALSE, error |-> message]

\* `${x}` of a split part: a missing part prints as "undefined"
Part(parts, i) == IF i <= Len(parts) THEN parts[i] ELSE "undefined"

\* parseBanxicoDate: dd/mm/yyyy to yyyy-mm-dd; anything falsy or without a
\* slash is handed back as it is; a truthy value that is no string has no
\* includes method
parseBanxicoDate(d) ==
  IF ~Truthy(d) THEN Return(d)
  ELSE IF d.t # "string" THEN Throw("d.includes is not a function")
  ELSE IF ~Includes(d.s, "/") THEN Return(d)
  ELSE LET parts == Split(d.s, "/")
       IN  Return(Str(Part(parts, 3) \o "-" \o Part(parts, 2) \o "-" \o Part(parts, 1)))

\* asOfOf stamping the fixing with midnight UTC
asOfOfMidnight(fecha) ==
  LET tv == DateParse(fecha.s \o "T00:00:00Z")
  IN  IF IsFinite(tv) THEN Return(Str(ToISOString(tv)))
      ELSE Throw("Invalid time value")

\* new Date(`${fecha}T18:00:00Z`).toISOString(): RangeError on an invalid date
asOfOf(fecha) ==
  LET tv == DateParse(fecha.s \o "T18:00:00Z")
  IN  IF IsFinite(tv) THEN Return(Str(ToISOString(tv)))
      ELSE Throw("Invalid time value")

\* NewCache stamping the quote with the time of the fetch
NewCacheAtFetchTime(j, mid, asOf) ==
  [asOf |-> Str(ToISOString(Num(now))),
   usd_mxn_mid |-> StringToNumber(ToFixed4(mid)),
   stale |-> FALSE, raw |-> j]

\* the cache object built from body j, rate mid and instant asOf
NewCache(j, mid, asOf) ==
  [asOf |-> asOf, usd_mxn_mid |-> StringToNumber(ToFixed4(mid)),
   stale |-> FALSE, raw |-> j]

\* fetchBanxico after r.json() has resolved to j: the new cache object, or
\* the error thrown before the cache is assigned
Normalize(j) ==
  LET punto == IF j.t = "json" THEN j.punto ELSE Undefined
      mid == ToNumber(Get(punto, "dato"))
      fecha == parseBanxicoDate(Get(punto, "fecha"))
  IN  IF ~fecha.ok THEN fecha
      ELSE IF ~IsFinite(mid) \/ ~Truthy(fecha.v) THEN Throw("BANXICO_PARSE_ERROR")
      ELSE LET asOf == asOfOf(fecha.v)
           IN  IF ~asOf.ok THEN asOf ELSE Return(NewCache(j, mid, asOf.v))

\* the message of the Error thrown on a response that is not ok
UpstreamError(status) == "BANXICO_UPSTREAM_" \o ToString(status)

(***************************************************************************)
(* The cache and its readers.                                              *)
(***************************************************************************)
EmptyCache == [asOf |-> Null, usd_mxn_mid |-> Null, stale |-> TRUE, raw |-> Null]

\* isStale with the test `>=` in place of `>`
isStaleAtThreshold(asOfISO, t) ==
  IF ~Truthy(asOfISO) THEN TRUE
  ELSE GreaterThan(Minus(Num(t), DateParse(asOfISO.s)), 24 * 60 * 60 * 1000 - 1)

\* isStale at Date.now() = t
isStale(asOfISO, t) ==
  IF ~Truthy(asOfISO) THEN TRUE
  ELSE GreaterThan(Minus(Num(t), DateParse(asOfISO.s)), 24 * 60 * 60 * 1000)

\* needsRefresh with the test `>=` in place of `>`
needsRefreshAtThreshold(c, t) ==
  \/ ~Truthy(c.asOf)
  \/ GreaterThan(Minus(Num(t), DateParse(c.asOf.s)), MAX_CACHE_MS - 1)

\* needsRefresh without the test for an empty cache: Date.parse(null) is NaN
\* and no comparison with NaN is true
needsRefreshByAgeOnly(c, t) ==
  IF c.asOf.t = "string"
  THEN GreaterThan(Minus(Num(t), DateParse(c.asOf.s)), MAX_CACHE_MS)
  ELSE FALSE

\* the handler's needsRefresh at Date.now() = t
needsRefresh(c, t) ==
  \/ ~Truthy(c.asOf)
  \/ GreaterThan(Minus(Num(t), DateParse(c.asOf.s)), MAX_CACHE_MS)

\* the body of /healthz
HealthBody(c, t) ==
  [ok |-> TRUE, source |-> SOURCE, cached |-> Truthy(c.asOf),
   stale |-> isStale(c.asOf, t)]

\* the 200 response of /fx/usd-mxn/latest
QuoteResponse(c, t) ==
  [status |-> 200, asOf |-> c.asOf, usd_mxn_mid |-> c.usd_mxn_mid,
   buy_spread_bps |-> BUY_SPREAD_BPS, sell_spread_bps |-> SELL_SPREAD_BPS,
   source |-> SOURCE, stale |-> isStale(c.asOf, t)]

\* the response of the catch block: String(e.message || e)
ErrorResponse(message) ==
  [status |-> 502, error |-> IF message # "" THEN message ELSE "Error"]

\* no response sent yet
NoResponse == [status |-> 0]

NoError == ""

\* no /healthz response sent yet
NoHealth == [ok |-> FALSE]

(***************************************************************************)
(* The clock.  It only moves forward, over the instants at which the two   *)
(* age tests can change their answer: 18:00:00.000 UTC of each day (the    *)
(* instant a fixing is stamped with), one millisecond later, and the       *)
(* refresh interval later to the millisecond and one past it; midnight of  *)
(* day 0 comes before every fixing.                                        *)
(***************************************************************************)
Instants ==
  {0} \cup {d * MsPerDay + 18 * MsPerHour + o :
              d \in 0..MaxDays, o \in {0, 1, MAX_CACHE_MS, MAX_CACHE_MS + 1}}

Tick == /\ \E t \in Instants : t > now /\ now' = t
        /\ UNCHANGED <<cache, pc, seen, needs, fetches, pending, resp, health, own>>

(***************************************************************************)
(* GET /fx/usd-mxn/latest.  The handler runs to its first await in one     *)
(* step; fetchBanxico suspends at `await fetch` and at `await r.json()`,   *)
(* and the handler resumes from `await fetchBanxico()` in a later step.    *)
(***************************************************************************)
\* the request arrives: needsRefresh is computed, and either the upstream
\* call is issued or the cached quote is answered at once
Latest(r) ==
  /\ pc[r] = "idle"
  /\ seen' = [seen EXCEPT ![r] = cache.asOf]
  /\ needs' = [needs EXCEPT ![r] = needsRefresh(cache, now)]
  /\ pending' = [pending EXCEPT ![r] = NoError]
  /\ IF needsRefresh(cache, now)
     THEN /\ pc' = [pc EXCEPT ![r] = "fetch"]
          /\ fetches' = [fetches EXCEPT ![r] = 1]
          /\ resp' = [resp EXCEPT ![r] = NoResponse]
     ELSE /\ pc' = pc
          /\ fetches' = [fetches EXCEPT ![r] = 0]
          /\ resp' = [resp EXCEPT ![r] = QuoteResponse(cache, now)]
  /\ UNCHANGED <<now, cache, health, own>>

\* `await fetch(url)` resolves with a status line: a response that is not ok
\* throws before the body is read
FetchResolves(r, statuses) ==
  /\ pc[r] = "fetch"
  /\ \E status \in statuses :
       IF Ok(status)
       THEN pc' = [pc EXCEPT ![r] = "json"] /\ pending' = pending
       ELSE /\ pc' = [pc EXCEPT ![r] = "catch"]
            /\ pending' = [pending EXCEPT ![r] = UpstreamError(status)]
  /\ UNCHANGED <<now, cache, seen, needs, fetches, resp, health, own>>

\* `await fetch(url)` rejects: no response at all
FetchRejects(r) ==
  /\ pc[r] = "fetch"
  /\ pc' = [pc EXCEPT ![r] = "catch"]
  /\ pending' = [pending EXCEPT ![r] = "request to banxico failed"]
  /\ UNCHANGED <<now, cache, seen, needs, fetches, resp, health, own>>

\* JsonSettles with the cache reset when the body is rejected
JsonSettlesResets(r, bodies) ==
  /\ pc[r] = "json"
  /\ \E j \in bodies :
       IF j # NotJson /\ Normalize(j).ok
       THEN /\ cache' = Normalize(j).v
            /\ pc' = [pc EXCEPT ![r] = "resume"]
            /\ own' = [own EXCEPT ![r] = Normalize(j).v]
            /\ pending' = pending
       ELSE /\ pc' = [pc EXCEPT ![r] = "catch"]
            /\ pending' = [pending EXCEPT ![r] = "BANXICO_PARSE_ERROR"]
            /\ own' = own
            /\ cache' = EmptyCache
  /\ UNCHANGED <<now, seen, needs, fetches, resp, health>>

\* JsonSettles writing the cache only when the quote is not older than the
\* one held
JsonSettlesKeepsNewest(r, bodies) ==
  /\ pc[r] = "json"
  /\ \E j \in bodies :
       IF j # NotJson /\ Normalize(j).ok
       THEN /\ cache' = IF /\ Truthy(cache.asOf)
                           /\ DateParse(Normalize(j).v.asOf.s).v
                                < DateParse(cache.asOf.s).v
                        THEN cache
                        ELSE Normalize(j).v
            /\ pc' = [pc EXCEPT ![r] = "resume"]
            /\ own' = [own EXCEPT ![r] = cache']
            /\ pending' = pending
       ELSE /\ pc' = [pc EXCEPT ![r] = "catch"]
            /\ pending' = [pending EXCEPT ![r] = "BANXICO_PARSE_ERROR"]
            /\ own' = own
            /\ cache' = cache
  /\ UNCHANGED <<now, seen, needs, fetches, resp, health>>

\* `await r.json()` settles: the body is parsed, validated and normalized, and
\* the cache is replaced; or an error is thrown and the cache is left alone
JsonSettles(r, bodies) ==
  /\ pc[r] = "json"
  /\ \E j \in bodies :
       IF j = NotJson
       THEN /\ pc' = [pc EXCEPT ![r] = "catch"]
            /\ pending' = [pending EXCEPT ![r] = "invalid json response body"]
            /\ own' = own
            /\ cache' = cache
       ELSE IF Normalize(j).ok
       THEN /\ cache' = Normalize(j).v
            /\ pc' = [pc EXCEPT ![r] = "resume"]
            /\ own' = [own EXCEPT ![r] = Normalize(j).v]
            /\ pending' = pending
       ELSE /\ pc' = [pc EXCEPT ![r] = "catch"]
            /\ pending' = [pending EXCEPT ![r] = Normalize(j).error]
            /\ own' = own
            /\ cache' = cache
  /\ UNCHANGED <<now, seen, needs, fetches, resp, health>>

\* Resume answering with the asOf read before the await and the rate read
\* after it
ResumeMixed(r) ==
  /\ pc[r] = "resume"
  /\ pc' = [pc EXCEPT ![r] = "idle"]
  /\ resp' = [resp EXCEPT ![r] =
                [QuoteResponse(cache, now) EXCEPT
                   !.asOf = IF Truthy(seen[r]) THEN seen[r] ELSE cache.asOf]]
  /\ own' = [own EXCEPT ![r] = Null]
  /\ UNCHANGED <<now, cache, seen, needs, fetches, pending, health>>

\* Resume answering the rate as the payload carries it, not as the cache
\* holds it
ResumeUnrounded(r) ==
  /\ pc[r] = "resume"
  /\ pc' = [pc EXCEPT ![r] = "idle"]
  /\ resp' = [resp EXCEPT ![r] =
                [QuoteResponse(cache, now) EXCEPT
                   !.usd_mxn_mid = ToNumber(Get(cache.raw.punto, "dato"))]]
  /\ own' = [own EXCEPT ![r] = Null]
  /\ UNCHANGED <<now, cache, seen, needs, fetches, pending, health>>

\* the handler resumes after a fetchBanxico that returned: it answers from
\* the module-level cache as it is now
Resume(r) ==
  /\ pc[r] = "resume"
  /\ pc' = [pc EXCEPT ![r] = "idle"]
  /\ resp' = [resp EXCEPT ![r] = QuoteResponse(cache, now)]
  /\ own' = [own EXCEPT ![r] = Null]
  /\ UNCHANGED <<now, cache, seen, needs, fetches, pending, health>>

\* Catch dropping the cached quote when a refresh fails
CatchResets(r) ==
  /\ pc[r] = "catch"
  /\ pc' = [pc EXCEPT ![r] = "idle"]
  /\ resp' = [resp EXCEPT ![r] = ErrorResponse(pending[r])]
  /\ cache' = EmptyCache
  /\ UNCHANGED <<now, seen, needs, fetches, pending, health, own>>

\* Catch falling back to the cached quote when there is one
CatchServesCached(r) ==
  /\ pc[r] = "catch"
  /\ pc' = [pc EXCEPT ![r] = "idle"]
  /\ resp' = [resp EXCEPT ![r] = IF Truthy(cache.asOf)
                                 THEN QuoteResponse(cache, now)
                                 ELSE ErrorResponse(pending[r])]
  /\ UNCHANGED <<now, cache, seen, needs, fetches, pending, health, own>>

\* Catch stamping the held quote with the time of the failed attempt
CatchRestamps(r) ==
  /\ pc[r] = "catch"
  /\ pc' = [pc EXCEPT ![r] = "idle"]
  /\ resp' = [resp EXCEPT ![r] = ErrorResponse(pending[r])]
  /\ cache' = IF Truthy(cache.asOf)
              THEN [cache EXCEPT !.asOf = Str(ToISOString(Num(now)))]
              ELSE cache
  /\ UNCHANGED <<now, seen, needs, fetches, pending, health, own>>

\* Catch trying the upstream once more before it gives up
CatchRetries(r) ==
  /\ pc[r] = "catch"
  /\ IF fetches[r] < 2
     THEN /\ pc' = [pc EXCEPT ![r] = "fetch"]
          /\ fetches' = [fetches EXCEPT ![r] = fetches[r] + 1]
          /\ resp' = resp
     ELSE /\ pc' = [pc EXCEPT ![r] = "idle"]
          /\ fetches' = fetches
          /\ resp' = [resp EXCEPT ![r] = ErrorResponse(pending[r])]
  /\ UNCHANGED <<now, cache, seen, needs, pending, health, own>>

\* the handler's catch block: 502 with the error's message
Catch(r) ==
  /\ pc[r] = "catch"
  /\ pc' = [pc EXCEPT ![r] = "idle"]
  /\ resp' = [resp EXCEPT ![r] = ErrorResponse(pending[r])]
  /\ UNCHANGED <<now, cache, seen, needs, fetches, pending, health, own>>

(***************************************************************************)
(* GET /healthz: synchronous, reads the cache.                             *)
(***************************************************************************)
\* Healthz starting a refresh when the cache needs one
HealthzRefreshes ==
  /\ health' = HealthBody(cache, now)
  /\ IF needsRefresh(cache, now) /\ pc[1] = "idle"
     THEN /\ pc' = [pc EXCEPT ![1] = "fetch"]
          /\ fetches' = [fetches EXCEPT ![1] = 1]
     ELSE UNCHANGED <<pc, fetches>>
  /\ UNCHANGED <<now, cache, seen, needs, pending, resp, own>>

Healthz ==
  /\ health' = HealthBody(cache, now)
  /\ UNCHANGED <<now, cache, pc, seen, needs, fetches, pending, resp, own>>

Init ==
  /\ now = 0
  /\ cache = EmptyCache
  /\ pc = [r \in Requests |-> "idle"]
  /\ seen = [r \in Requests |-> Null]
  /\ needs = [r \in Requests |-> FALSE]
  /\ fetches = [r \in Requests |-> 0]
  /\ pending = [r \in Requests |-> NoError]
  /\ resp = [r \in Requests |-> NoResponse]
  /\ health = NoHealth
  /\ own = [r \in Requests |-> Null]

\* two requests that overlap in every way, over the core answers
Next ==
  \/ Tick
  \/ Healthz
  \/ \E r \in Requests : Latest(r)
  \/ \E r \in Requests : FetchResolves(r, CoreStatuses)
  \/ \E r \in Requests : FetchRejects(r)
  \/ \E r \in Requests : JsonSettles(r, CoreBodies)
  \/ \E r \in Requests : Resume(r)
  \/ \E r \in Requests : Catch(r)

Spec == Init /\ [][Next]_vars

\* one request at a time, over every answer
NextOne ==
  \/ Tick
  \/ Healthz
  \/ Latest(1)
  \/ FetchResolves(1, Statuses)
  \/ FetchRejects(1)
  \/ JsonSettles(1, Bodies)
  \/ Resume(1)
  \/ Catch(1)

SpecOne == Init /\ [][NextOne]_vars

\* two requests that overlap in every way, the upstream answering the fixing
\* of 2025-09-02 throughout (or failing)
NextSame ==
  \/ Tick
  \/ Healthz
  \/ \E r \in Requests : Latest(r)
  \/ \E r \in Requests : FetchResolves(r, CoreStatuses)
  \/ \E r \in Requests : FetchRejects(r)
  \/ \E r \in Requests : JsonSettles(r, {Fix2})
  \/ \E r \in Requests : Resume(r)
  \/ \E r \in Requests : Catch(r)

SpecSame == Init /\ [][NextSame]_vars

(***************************************************************************)
(* Properties.                                                             *)
(***************************************************************************)
\* now - as_of, in milliseconds, of a cache that holds a quote
AgeMs(c, t) == t - DateParse(c.asOf.s).v

Held(c) == c.asOf # Null

\* request r's upstream call fails in this step
FetchFails(r) == pc[r] \in {"fetch", "json"} /\ pc'[r] = "catch"

\* C1: a failing upstream call, and the catch block that answers it, leave
\* as_of and mid_rate of the held quote exactly as they were, and a /healthz
\* that follows still reports cached = true
C1_FailureKeepsCache ==
  [][\A r \in Requests :
       (FetchFails(r) \/ Catch(r)) /\ Held(cache)
         => /\ cache'.asOf = cache.asOf
            /\ cache'.usd_mxn_mid = cache.usd_mxn_mid
            /\ HealthBody(cache', now').cached]_vars

\* a call that found a quote held and due for refresh has failed and been
\* answered, the quote it found is still the one held, and /healthz has
\* reported it
C1_Witness ==
  \E r \in Requests :
    /\ pc[r] = "idle" /\ resp[r].status = 502
    /\ seen[r] # Null /\ cache.asOf = seen[r]
    /\ health.ok /\ health.cached

\* C2: a call that saw needsRefresh and whose upstream call failed is, once
\* answered, answered 502 with the message of the error, whatever the cache
\* holds: never 200, never 500
C2_FailureIs502 ==
  \A r \in Requests :
    pending[r] # NoError
      => /\ needs[r]
         /\ pc[r] \in {"catch", "idle"}
         /\ pc[r] = "idle" => /\ resp[r].status = 502
                              /\ resp[r].error = pending[r]
                              /\ resp[r].error # ""

\* a call that found a quote held, went upstream and failed, answered 502
C2_Witness ==
  \E r \in Requests :
    /\ pc[r] = "idle" /\ resp[r].status = 502 /\ needs[r]
    /\ seen[r] # Null /\ Held(cache)

\* C3: the handler goes upstream exactly when the cache is empty or the held
\* quote is strictly older than the refresh interval; otherwise it answers
\* the held quote at once; and nothing but the arrival of a request issues
\* an upstream call
C3_RefreshIffExpired ==
  [][\A r \in Requests :
       /\ Latest(r) =>
            /\ (fetches'[r] = 1) <=>
                 (IF Held(cache) THEN AgeMs(cache, now) > MAX_CACHE_MS ELSE TRUE)
            /\ fetches'[r] = 1 => pc'[r] = "fetch" /\ resp'[r] = NoResponse
            /\ fetches'[r] # 1 =>
                 /\ fetches'[r] = 0 /\ pc'[r] = "idle"
                 /\ resp'[r].status = 200
                 /\ resp'[r].asOf = cache.asOf
                 /\ resp'[r].usd_mxn_mid = cache.usd_mxn_mid
       /\ fetches'[r] # fetches[r] => Latest(r)]_vars

\* a request that arrived when the held quote was exactly the refresh
\* interval old was answered from the cache, without an upstream call
C3_Witness ==
  \E r \in Requests :
    /\ Held(cache) /\ AgeMs(cache, now) = MAX_CACHE_MS
    /\ pc[r] = "idle" /\ fetches[r] = 0
    /\ resp[r].status = 200 /\ resp[r].asOf = cache.asOf

\* C4: whenever a quote is held, the stale flag that /healthz and
\* /fx/usd-mxn/latest report is true exactly when now - as_of > 24 hours
C4_StaleBoundary ==
  [][/\ Healthz /\ Held(cache)
          => health'.stale = (AgeMs(cache, now) > 24 * 60 * 60 * 1000)
     /\ \A r \in Requests :
          (Latest(r) \/ Resume(r)) /\ resp'[r].status = 200
            => resp'[r].stale = (AgeMs(cache, now) > 24 * 60 * 60 * 1000)]_vars

\* the held quote is exactly 24 hours old and both endpoints have last
\* reported it as not stale
C4_Witness ==
  /\ Held(cache) /\ AgeMs(cache, now) = 24 * 60 * 60 * 1000
  /\ health.ok /\ health.cached /\ ~health.stale
  /\ pc[1] = "idle" /\ resp[1].status = 200 /\ ~resp[1].stale
  /\ resp[1].asOf = cache.asOf

\* C5: a step that answers /healthz issues no upstream call, moves no
\* request and leaves the cache as it is
C5_HealthzReadsOnly ==
  [][Healthz \/ health' # health
       => /\ cache' = cache
          /\ fetches' = fetches
          /\ pc' = pc]_vars

\* /healthz has answered "cached and stale" and "not cached" states aside,
\* here with one request waiting for the upstream and one for its body
C5_Witness ==
  /\ health.ok /\ health.cached /\ health.stale
  /\ pc[1] = "fetch" /\ pc[2] = "json"

\* the cache is Empty or Populated
TwoStates(c) ==
  \/ c = EmptyCache
  \/ /\ c.asOf.t = "string" /\ c.asOf.s # ""
     /\ c.usd_mxn_mid.t = "number"

\* C6: the cache starts Empty and is always Empty or Populated; it becomes
\* Populated only in the step in which some request's upstream call
\* succeeds, a failing call leaves it Empty or Populated as it was, and once
\* Populated it is never Empty again
C6_EmptyThenPopulated ==
  /\ cache = EmptyCache
  /\ [][/\ TwoStates(cache')
        /\ Held(cache) => Held(cache')
        /\ ~Held(cache) /\ Held(cache')
             => \E r \in Requests : pc[r] = "json" /\ pc'[r] = "resume"
        /\ \A r \in Requests :
             FetchFails(r) \/ Catch(r) => (Held(cache') <=> Held(cache))]_vars

\* two calls found the cache empty; one failed and left it empty, the other
\* succeeded and populated it
C6_Witness ==
  \E r, q \in Requests :
    /\ pc[r] = "idle" /\ seen[r] = Null /\ resp[r].status = 502
    /\ pc[q] = "idle" /\ seen[q] = Null /\ resp[q].status = 200
    /\ Held(cache)

\* the quotes a successful upstream call can build
Quotes == {Normalize(j).v : j \in {b \in Bodies \ {NotJson} : Normalize(b).ok}}

\* C7: the cache is empty (no as_of, no mid_rate) or is, whole, the quote
\* built from the one payload it keeps; and the as_of and mid_rate of every
\* 200 response are those of one quote
C7_NoPartialQuote ==
  /\ \/ cache.asOf = Null /\ cache.usd_mxn_mid = Null
     \/ /\ cache.raw \in Bodies \ {NotJson}
        /\ Normalize(cache.raw).ok
        /\ cache = Normalize(cache.raw).v
  /\ \A r \in Requests :
       resp[r].status = 200
         => \E q \in Quotes : /\ resp[r].asOf = q.asOf
                              /\ resp[r].usd_mxn_mid = q.usd_mxn_mid

\* two refreshes overlap: one call has answered a quote newer than the one
\* it found, the other has written the cache and not yet read it back
C7_Witness ==
  \E r, q \in Requests :
    /\ pc[r] = "idle" /\ fetches[r] = 1 /\ resp[r].status = 200
    /\ seen[r] # Null /\ resp[r].asOf # seen[r]
    /\ pc[q] = "resume"

FinitePositive(x) == x.t = "number" /\ x.k = "fin" /\ x.v > 0

\* C8: a quote is only ever built from a payload whose rate is a finite
\* positive number (the call fails on any other), so the held mid_rate is
\* finite and positive
C8_RateFinitePositive ==
  Held(cache)
    => /\ FinitePositive(ToNumber(Get(cache.raw.punto, "dato")))
       /\ FinitePositive(cache.usd_mxn_mid)

\* a date field in day/month/year form: dd/mm/yyyy
IsDayMonthYear(f) ==
  /\ f.t = "string"
  /\ LET p == Split(f.s, "/")
     IN  /\ Len(p) = 3
         /\ Len(p[1]) = 2 /\ Len(p[2]) = 2 /\ Len(p[3]) = 4
         /\ \A i \in 1..3 : AllDigits(p[i])
         /\ DecVal(p[1]) \in 1..31 /\ DecVal(p[2]) \in 1..12

\* C9: a JSON payload whose date field is absent or is no day/month/year
\* date makes the upstream call fail with BANXICO_PARSE_ERROR and with no
\* other error, and leaves the cache as it was
C9_BadDateIsParseError ==
  [][\A j \in Bodies \ {NotJson} :
       ~IsDayMonthYear(Get(j.punto, "fecha")) /\ JsonSettles(1, {j})
         => /\ pc'[1] = "catch"
            /\ pending'[1] = "BANXICO_PARSE_ERROR"
            /\ cache' = cache]_vars

\* C10: a status outside 200..299 makes the upstream call fail, in the step
\* the status arrives and with the cache untouched, with an error that
\* carries the status; a call that found the cache empty and got 503 is
\* answered 502 {error: "BANXICO_UPSTREAM_503"} and leaves the cache empty
C10_UpstreamStatus ==
  /\ [](\A r \in Requests :
          pc[r] = "idle" /\ pending[r] = "BANXICO_UPSTREAM_503"
            => /\ resp[r] = [status |-> 502, error |-> "BANXICO_UPSTREAM_503"]
               /\ seen[r] = Null => cache = EmptyCache)
  /\ [][\A r \in Requests, status \in Statuses :
          (status < 200 \/ status > 299) /\ FetchResolves(r, {status})
            => /\ pc'[r] = "catch"
               /\ pending'[r] = "BANXICO_UPSTREAM_" \o ToString(status)
               /\ cache' = cache]_vars

\* upstream answered 503 to a call on an empty cache: 502 with
\* BANXICO_UPSTREAM_503, and the cache is still empty
C10_Witness ==
  /\ pc[1] = "idle" /\ seen[1] = Null
  /\ resp[1] = [status |-> 502, error |-> "BANXICO_UPSTREAM_503"]
  /\ cache = EmptyCache

\* a rate field that is a finite positive number
ValidRate(dato) == FinitePositive(ToNumber(dato))

\* a finite positive number rounded to 4 decimals, the half upwards
Round4(x) == Num(((x.v + 5) \div 10) * 10)

\* 18:00:00.000 UTC of the calendar date dd/mm/yyyy, as toISOString prints it
SixPmUtcOf(f) ==
  LET p == Split(f.s, "/")
  IN  Str(p[3] \o "-" \o p[2] \o "-" \o p[1] \o "T18:00:00.000Z")

InFlight(r) == pc[r] \in {"fetch", "json"}

\* C12: nothing serializes refreshes.  A request that sees needsRefresh goes
\* upstream also while another request's upstream call is in flight, and
\* every upstream call that succeeds replaces the cache with its own quote,
\* whatever is held: the last writer wins, also with the older as_of
C12_LastWriteWins ==
  [][\A r \in Requests :
       /\ Latest(r) /\ needsRefresh(cache, now)
            /\ (\E q \in Requests \ {r} : InFlight(q))
            => pc'[r] = "fetch" /\ fetches'[r] = 1
       /\ \A j \in CoreBodies :
            JsonSettles(r, {j}) /\ pc'[r] = "resume"
              => cache' = Normalize(j).v]_vars

\* both requests found the cache empty and went upstream; the call given the
\* fixing of 2025-09-02 wrote first and was answered, the call given the
\* fixing of 2025-09-01 wrote last, and the cache holds the older quote
C12_Witness ==
  \E r, q \in Requests :
    /\ seen[r] = Null /\ fetches[r] = 1 /\ pc[r] = "idle"
    /\ resp[r].status = 200 /\ resp[r].asOf = Str("2025-09-02T18:00:00.000Z")
    /\ seen[q] = Null /\ fetches[q] = 1 /\ pc[q] = "idle"
    /\ resp[q].status = 200 /\ resp[q].asOf = Str("2025-09-01T18:00:00.000Z")
    /\ cache.raw = Fix1 /\ cache.asOf = Str("2025-09-01T18:00:00.000Z")

\* the held quote is older than the stale threshold
PastStale(c, t) == Held(c) /\ AgeMs(c, t) > 24 * 60 * 60 * 1000

\* C13: the clock never goes back, and once the held quote is older than the
\* stale threshold it stays so through every step that is not a successful
\* refresh: a failing upstream call, the catch block and /healthz leave the
\* quote alone, and every read until then, by /healthz or by a 200 response,
\* reports stale = true
C13_StaleUntilRefreshed ==
  [][/\ now' >= now
     /\ PastStale(cache, now) =>
          /\ (\A r \in Requests : ~(pc[r] = "json" /\ pc'[r] = "resume"))
               => cache' = cache /\ PastStale(cache', now')
          /\ \A r \in Requests : FetchFails(r) \/ Catch(r) => cache' = cache
          /\ Healthz => cache' = cache /\ health'.stale
          /\ \A r \in Requests :
               resp'[r] # resp[r] /\ resp'[r].status = 200 /\ cache' = cache
                 => resp'[r].stale]_vars

\* the held quote is past the stale threshold; since it was written, one
\* request's refresh has failed and been answered 502, /healthz has reported
\* stale, and the other request has answered the quote as stale
C13_Witness ==
  \E r, q \in Requests :
    /\ PastStale(cache, now)
    /\ pc[r] = "idle" /\ seen[r] = cache.asOf /\ resp[r].status = 502
    /\ health.ok /\ health.cached /\ health.stale
    /\ pc[q] = "idle" /\ resp[q].status = 200 /\ resp[q].stale
    /\ resp[q].asOf = cache.asOf

\* C14: while the upstream keeps returning one payload, any two 200
\* responses, whether answered after a refresh or from the cache within the
\* refresh interval, agree on as_of, mid_rate, both spreads and source (stale
\* aside); and the spreads and the source of every 200 response are the
\* configured ones
C14_SamePayloadSameQuote ==
  /\ \A r, q \in Requests :
       resp[r].status = 200 /\ resp[q].status = 200
         => [resp[r] EXCEPT !.stale = FALSE] = [resp[q] EXCEPT !.stale = FALSE]
  /\ \A r \in Requests :
       resp[r].status = 200
         => /\ resp[r].buy_spread_bps = 25
            /\ resp[r].sell_spread_bps = 25
            /\ resp[r].source = "banxico_fix"
            /\ resp[r].asOf = Str("2025-09-02T18:00:00.000Z")
            /\ resp[r].usd_mxn_mid = Num(1834570)

\* one call refreshed and answered; the other arrived within the refresh
\* interval of the quote, was answered from the cache, and both answers are
\* the same quote
C14_Witness ==
  \E r, q \in Requests :
    /\ pc[r] = "idle" /\ fetches[r] = 1 /\ resp[r].status = 200
    /\ pc[q] = "idle" /\ fetches[q] = 0 /\ resp[q].status = 200
    /\ seen[q] = resp[r].asOf
    /\ resp[q].asOf = resp[r].asOf /\ resp[q].usd_mxn_mid = resp[r].usd_mxn_mid

\* C15: a call issues at most one upstream call, and only on arrival; from
\* there it moves forward only (status line, body, then its answer), never
\* back to the upstream; it has sent nothing while the call is in progress
\* and ends with exactly one response: 200 after a success, 502 after a
\* failure
C15_OneFetchPerCall ==
  /\ [](\A r \in Requests :
          /\ fetches[r] \in {0, 1}
          /\ pc[r] # "idle" => fetches[r] = 1 /\ resp[r] = NoResponse)
  /\ [][\A r \in Requests :
          /\ fetches'[r] # fetches[r] => pc[r] = "idle"
          /\ pc'[r] # pc[r] =>
               /\ pc'[r] = "fetch" => pc[r] = "idle"
               /\ pc[r] = "fetch" => pc'[r] \in {"json", "catch"}
               /\ pc[r] = "json" => pc'[r] \in {"resume", "catch"}
               /\ pc[r] = "resume" => pc'[r] = "idle" /\ resp'[r].status = 200
               /\ pc[r] = "catch" => pc'[r] = "idle" /\ resp'[r].status = 502]_vars

\* one call went upstream once and was answered 502, the other went upstream
\* once and was answered 200
C15_Witness ==
  \E r, q \in Requests :
    /\ pc[r] = "idle" /\ fetches[r] = 1 /\ resp[r].status = 502
    /\ pc[q] = "idle" /\ fetches[q] = 1 /\ resp[q].status = 200

\* C16: the 200 response of a call whose own upstream call succeeded carries
\* the as_of and mid_rate of the quote that call built (the object its
\* fetchBanxico() returned), whatever other calls have written meanwhile
C16_OwnQuoteAnswered ==
  [][\A r \in Requests :
       Resume(r) => /\ resp'[r].status = 200
                    /\ resp'[r].asOf = own[r].asOf
                    /\ resp'[r].usd_mxn_mid = own[r].usd_mxn_mid]_vars

\* C17: every 200 response carries an as_of and a mid_rate that are not
\* null, and is built while the cache holds a quote; the cache holds a quote
\* exactly from the first upstream call that succeeds on; and /healthz
\* answers cached = false with stale = true exactly while it holds none
C17_NoEmptySuccess ==
  /\ ~Held(cache)
  /\ [](\A r \in Requests :
          resp[r].status = 200
            => /\ resp[r].asOf.t = "string" /\ resp[r].asOf.s # ""
               /\ resp[r].usd_mxn_mid.t = "number")
  /\ [][/\ \A r \in Requests :
             resp'[r] # resp[r] /\ resp'[r].status = 200 => Held(cache)
        /\ Held(cache') <=>
             \/ Held(cache)
             \/ \E r \in Requests : pc[r] = "json" /\ pc'[r] = "resume"
        /\ Healthz =>
             /\ (~health'.cached /\ health'.stale) <=> ~Held(cache)
             /\ health'.cached <=> Held(cache)]_vars

\* /healthz has answered "not cached, stale" on the empty cache, after one
\* call has failed on it; the other call is about to be answered
C17_Witness ==
  \E r, q \in Requests :
    /\ ~Held(cache) /\ health.ok /\ ~health.cached /\ health.stale
    /\ pc[r] = "idle" /\ resp[r].status = 502
    /\ pc[q] = "json"

\* the fixing instant of the payload the cache keeps: 18:00 UTC of its date
FixingMs(c) == DateParse(SixPmUtcOf(c.raw.punto.fecha).s).v

\* C18: the age that decides a refresh runs from the fixing instant of the
\* held quote, not from the time it was fetched.  A successful upstream call
\* that stores a quote fixed more than the refresh interval ago leaves the
\* cache due for refresh at once, and every request that arrives while such
\* a quote is held goes upstream again
C18_AgeFromFixing ==
  [][\A r \in Requests :
       /\ pc[r] = "json" /\ pc'[r] = "resume"
            /\ now' - FixingMs(cache') > MAX_CACHE_MS
            => needsRefresh(cache', now')
       /\ Latest(r) /\ Held(cache) /\ now - FixingMs(cache) > MAX_CACHE_MS
            => pc'[r] = "fetch" /\ fetches'[r] = 1]_vars

\* one call found the cache empty, fetched a quote already older than the
\* refresh interval and answered it; the next call found that quote held
\* and has gone upstream again
C18_Witness ==
  \E r, q \in Requests :
    /\ pc[r] = "idle" /\ seen[r] = Null /\ fetches[r] = 1
    /\ resp[r].status = 200 /\ resp[r].asOf = cache.asOf
    /\ AgeMs(cache, now) > MAX_CACHE_MS
    /\ pc[q] = "fetch" /\ seen[q] = cache.asOf /\ fetches[q] = 1

=============================================================================
